---- MODULE Spec2Model ----
(***************************************************************************)
(* LocalChatInterface: the Express server of src/server.js (chat store,    *)
(* settings store, simulated SSE relay) and the session controller of      *)
(* src/public/script.js, as one state machine.                             *)
(*                                                                         *)
(* JavaScript values are modelled as follows.  A string is a sequence of   *)
(* one-character strings (so "" is << >>), an object is a record whose     *)
(* DOMAIN is the set of its own keys (a missing key reads as undefined),   *)
(* an array is a sequence.  'chat-' + Date.now() is <<"chat", t>> and      *)
(* 'msg-' + Date.now() is <<"msg", t>>.  A file is a record tagged         *)
(* "absent", "corrupt" (bytes that are not JSON) or "json".                *)
(***************************************************************************)
EXTENDS Integers, Sequences, FiniteSets, TLC

VARIABLES
    now,            \* Date.now() / new Date(): the wall clock, in ticks
    serverUp,       \* the node process is alive (no uncaught exception yet)
    chatFiles,      \* data/chats/<id>.json, by conversation id
    settingsFile,   \* data/settings.json
    http,           \* the HTTP exchanges, in order of arrival at the server
    lastSaved,      \* history: body of the last POST /api/chats written, by id
    sse,            \* the POST /api/chat connections (simulated relay)
    reader,         \* part_001:161-218: the read loop of streamChatCompletion
    currentChatId,  \* script.js:38
    created,        \* history: the ids createNewChat has assigned in this session
    currentMessages,\* script.js:39
    currentSettings,\* script.js:42
    settingsModal,  \* #settings-modal is active
    websocket,      \* script.js:49: 0 is null, else the socket it refers to
    isGenerating,   \* script.js:50 (sendBtn.disabled is always set with it)
    chatTitle,      \* chatTitle.textContent
    dom,            \* children of #chat-messages that are message elements
    messageInput,   \* messageInput.value
    editModal,      \* #edit-message-modal is active
    editMessageId,  \* editMessageContent.dataset.messageId
    chatHistory,    \* the sidebar as rendered by renderChatHistory
    ws,             \* the WebSocket objects with the closures of their handlers
    edited,         \* history: the edit whose save and reload is being followed
    notice,         \* what the last handler run told the user, "none" if nothing
    event           \* history: the last handler run

storeVars == <<serverUp, chatFiles, settingsFile, http, lastSaved>>

clientVars ==
    <<currentChatId, created, currentMessages, currentSettings, settingsModal, websocket, isGenerating, chatTitle,
      dom, messageInput, editModal, editMessageId, chatHistory, ws, notice, event, edited>>

\* ------------------------------------------------------------------ bounds
MaxClock == 1
MaxReqs == 3
MaxConns == 2
MaxResponse == 4
MaxSockets == 2
MaxMsgs == 3
MaxLoad == 6
MaxChunks == 2
MaxFetches == 1
MaxDom == 3

\* ------------------------------------------------------- values and files
ChatId(t) == <<"chat", t>>
MsgId(t) == <<"msg", t>>

ChatIds == {ChatId(t) : t \in 0..MaxClock}

AbsentFile == [kind |-> "absent"]
CorruptFile == [kind |-> "corrupt"]

\* JSON.stringify(value, null, 2) as written to a file
JSONstringify(value) == [kind |-> "json", value |-> value]

\* JSON.parse(text) succeeds exactly on text that JSON.stringify produced
ParseOk(file) == file.kind = "json"
JSONparse(file) == file.value

\* server.js:36-42
defaultSettings ==
    [apiEndpoint |-> "http://localhost:1234/v1", model |-> "gpt-3.5-turbo",
     temperature |-> 7, maxTokens |-> 2048, topP |-> 9]

\* !x for a string-valued property of obj: undefined or ''
FalsyStr(obj, key) == key \notin DOMAIN obj \/ obj[key] = << >>
\* !x for an array-valued property of obj: undefined only ([] is truthy)
FalsyArr(obj, key) == key \notin DOMAIN obj

\* ----------------------------------------------- client values (script.js)
Undefined == <<"undefined">>
Null == <<"null">>
Falsy(x) == x \in {Undefined, Null, << >>}

Greeting == <<"Hello!">>      \* script.js:164
Sorry == <<"Sorry">>          \* script.js:344
NewChat == <<"New Chat">>     \* script.js:160

\* script.js:422-427, the object addMessageToChat pushes
msgObj(role, content, messageId, t) ==
    [id |-> IF Falsy(messageId) THEN MsgId(t) ELSE messageId,
     role |-> role, content |-> content, timestamp |-> t]

\* script.js:369-404, the element addMessageToChat appends: data-id only when
\* a messageId was passed; an edit button for a user message, a regenerate
\* button otherwise.  shows is history: the id of the message pushed with it.
messageDiv(role, messageId, shown) ==
    [dataId |-> IF Falsy(messageId) THEN Undefined ELSE messageId,
     role |-> role,
     btn |-> IF role = "user" THEN "edit" ELSE "regenerate",
     shows |-> shown]

\* no edit is being followed
NoEdit == [stage |-> "none"]

\* a WebSocket slot not in use
NoSocket == [st |-> "none"]

\* String.prototype.trim
RECURSIVE trimStart(_)
trimStart(str) == IF str # << >> /\ Head(str) = " " THEN trimStart(Tail(str)) ELSE str
RECURSIVE trimEnd(_)
trimEnd(str) ==
    IF str # << >> /\ str[Len(str)] = " " THEN trimEnd(SubSeq(str, 1, Len(str) - 1)) ELSE str
trim(str) == trimEnd(trimStart(str))

\* Array.prototype.findIndex(msg => msg.id === id), 1-based; 0 is the -1 of
\* the source
findIndex(msgs, id) ==
    IF \E i \in DOMAIN msgs : msgs[i].id = id
      THEN CHOOSE i \in DOMAIN msgs : msgs[i].id = id /\ \A j \in 1..(i - 1) : msgs[j].id # id
      ELSE 0

\* ------------------------------------------------------------------ Init
\* The state once server.js has run to server.listen with fresh data
\* directories (settings.json was just written with the defaults) and the
\* page's DOMContentLoaded handler (script.js:53-68) has finished:
\* settings loaded, empty history rendered, createNewChat run at time 0.
\* the server listening, the page loaded, no exchange yet
InitRest ==
    /\ now = 0
    /\ serverUp = TRUE
    /\ settingsFile = JSONstringify(defaultSettings)
    /\ http = << >>
    /\ sse = << >>
    /\ currentChatId = ChatId(0)
    /\ created = {ChatId(0)}
    /\ currentMessages = <<msgObj("assistant", Greeting, Undefined, 0)>>
    /\ currentSettings = defaultSettings
    /\ settingsModal = FALSE
    /\ websocket = 0
    /\ isGenerating = FALSE
    /\ chatTitle = NewChat
    /\ dom = <<messageDiv("assistant", Undefined, MsgId(0))>>
    /\ messageInput = << >>
    /\ editModal = FALSE
    /\ editMessageId = Undefined
    /\ chatHistory = << >>
    /\ ws = [k \in 1..MaxSockets |-> NoSocket]
    /\ notice = "none"
    /\ edited = NoEdit
    /\ event = [fn |-> "other"]

Init ==
    /\ chatFiles = [id \in ChatIds |-> AbsentFile]
    /\ lastSaved = [id \in ChatIds |-> << >>]
    /\ reader = [st |-> "idle"]    \* no streamChatCompletion call has been made
    /\ InitRest

vars ==
    <<now, serverUp, chatFiles, settingsFile, http, lastSaved, sse, reader, currentChatId, created,
      currentMessages, currentSettings, settingsModal, websocket, isGenerating, chatTitle, dom,
      messageInput, editModal, editMessageId, chatHistory, ws, notice, event, edited>>

\* the clock advances
Tick ==
    /\ now < MaxClock
    /\ now' = now + 1
    /\ UNCHANGED <<storeVars, sse, reader, clientVars>>

\* ------------------------------------------------- HTTP exchange plumbing
\* An exchange is appended when the request reaches the server; st is
\*   "fs"       the handler has started an asynchronous fs call
\*   "callback" (GET /api/chats) the directory was scanned, callback not run
\*   "done"     the response was sent: status, res (the JSON body)
\*   "refused"  nothing listened (the process had exited)
\*   "lost"     the process exited before the response was sent
\* from names who awaits the response.  hist is history, not sent: what the
\* handler found when it ran.  A top-level JSON array body is [array |-> seq].
Pending(r) == r \in DOMAIN http /\ http[r].st \notin {"done", "refused", "lost"}

\* the exchange as the listening (or dead) server takes it up
Accept(started) ==
    IF serverUp THEN started
    ELSE [op |-> started.op, from |-> started.from, st |-> "refused"]

Arrive(started) ==
    /\ Len(http) < MaxReqs
    /\ http' = Append(http, Accept(started))

\* fetch(...) of the page: the exchanges it has not yet consumed are bounded
fetch(started) ==
    /\ Len(http) < MaxFetches
    /\ http' = Append(http, Accept(started))

\* res.status(code).json(body), or nothing when the process is gone
Respond(r, code, body, hist) ==
    http' = [http EXCEPT ![r] =
                IF serverUp
                  THEN [@ EXCEPT !.st = "done"] @@ [status |-> code, res |-> body, hist |-> hist]
                  ELSE [@ EXCEPT !.st = "lost"] @@ [hist |-> hist]]

\* the exchanges whose handler has run to its end
Completed == {q \in DOMAIN http : http[q].st \in {"done", "lost"}}

\* ----------------------------------------------------------- chat store
\* the id '../name', as a request body or a URL parameter (..%2Fname,
\* decoded by the router) can carry it
DotDot(name) == <<"..", name>>

\* server.js:144 and 158, path.join(chatsDir, `${id}.json`): path.join
\* normalises, so a leading '..' segment leaves data/chats for data
pathJoin(id) ==
    IF Head(id) = ".." THEN [dir |-> "data", file |-> id[2]]
    ELSE [dir |-> "chats", file |-> id]

\* the files of the data directory the model holds: data/chats/<id>.json and
\* data/settings.json (server.js:20, 54)
ReadPath(p) == IF p.dir = "chats" THEN chatFiles[p.file] ELSE settingsFile

WritePath(p, content) ==
    IF p.dir = "chats"
      THEN /\ chatFiles' = [chatFiles EXCEPT ![p.file] = content]
           /\ UNCHANGED settingsFile
      ELSE /\ settingsFile' = content
           /\ UNCHANGED chatFiles

chatDataNoMessages(body, t) ==
    [id |-> body.id, title |-> body.title, timestamp |-> t, messages |-> << >>]

\* server.js:136-141, the document POST /api/chats writes
chatData(body, t) ==
    [id |-> body.id, title |-> body.title, timestamp |-> t, messages |-> body.messages]

\* server.js:129-142, the synchronous part of POST /api/chats
PostApiChatsStart(from, body) ==
    LET req == [op |-> "POST /api/chats", from |-> from, body |-> body, st |-> "fs"]
    IN  IF FalsyStr(body, "id") \/ FalsyStr(body, "title") \/ FalsyArr(body, "messages")
          THEN [req EXCEPT !.st = "done"]
                 @@ [status |-> 400, res |-> [error |-> "Missing required fields"]]
          ELSE req @@ [chatData |-> chatData(body, now)]

PostApiChats(from, body) ==
    /\ Arrive(PostApiChatsStart(from, body))
    /\ UNCHANGED <<now, serverUp, chatFiles, settingsFile, lastSaved, sse, reader, clientVars>>

\* a writeFile that leaves an existing file alone
PostApiChatsWriteFileIfAbsent(r) ==
    /\ Pending(r)
    /\ http[r].op = "POST /api/chats"
    /\ LET doc == http[r].chatData
       IN  /\ chatFiles' = IF chatFiles[doc.id].kind = "absent"
                             THEN [chatFiles EXCEPT ![doc.id] = JSONstringify(doc)]
                             ELSE chatFiles
           /\ lastSaved' = [lastSaved EXCEPT ![doc.id] = http[r].body]
           /\ Respond(r, 200, [success |-> TRUE, id |-> doc.id],
                      [written |-> TRUE, before |-> chatFiles[doc.id], was |-> Completed])
    /\ UNCHANGED <<now, serverUp, settingsFile, sse, reader, clientVars>>

\* server.js:143-152, fs.writeFile and its callback
PostApiChatsWriteFile(r) ==
    /\ Pending(r)
    /\ http[r].op = "POST /api/chats"
    /\ LET doc == http[r].chatData
       IN  /\ WritePath(pathJoin(doc.id), JSONstringify(doc))
           /\ lastSaved' = IF doc.id \in DOMAIN lastSaved
                             THEN [lastSaved EXCEPT ![doc.id] = http[r].body]
                             ELSE lastSaved
           /\ Respond(r, 200, [success |-> TRUE, id |-> doc.id],
                      [written |-> TRUE, before |-> ReadPath(pathJoin(doc.id)), was |-> Completed])
    /\ UNCHANGED <<now, serverUp, sse, reader, clientVars>>

\* server.js:155-158, DELETE /api/chats/:id up to fs.unlink
DeleteApiChatStart(from, id) ==
    [op |-> "DELETE /api/chats/:id", from |-> from, id |-> id, st |-> "fs"]

DeleteApiChat(from, id) ==
        /\ Arrive(DeleteApiChatStart(from, id))
        /\ UNCHANGED <<now, serverUp, chatFiles, settingsFile, lastSaved, sse, reader, clientVars>>

\* an unlink that answers without removing the file
DeleteApiChatUnlinkKeep(r) ==
    /\ Pending(r)
    /\ http[r].op = "DELETE /api/chats/:id"
    /\ LET id == http[r].id
           before == chatFiles[id]
       IN  IF before.kind = "absent"
             THEN /\ UNCHANGED chatFiles
                  /\ Respond(r, 500, [error |-> "Failed to delete chat"],
                             [existed |-> FALSE, before |-> chatFiles, after |-> chatFiles',
                              was |-> Completed])
             ELSE /\ UNCHANGED chatFiles
                  /\ Respond(r, 200, [success |-> TRUE],
                             [existed |-> TRUE, before |-> chatFiles, after |-> chatFiles',
                              was |-> Completed])
    /\ UNCHANGED <<now, serverUp, settingsFile, lastSaved, sse, reader, clientVars>>

\* server.js:158-163, fs.unlink and its callback: ENOENT is an err
DeleteApiChatUnlink(r) ==
    /\ Pending(r)
    /\ http[r].op = "DELETE /api/chats/:id"
    /\ LET id == http[r].id
           before == ReadPath(pathJoin(id))
       IN  IF before.kind = "absent"
             THEN /\ UNCHANGED <<chatFiles, settingsFile>>
                  /\ Respond(r, 500, [error |-> "Failed to delete chat"],
                             [existed |-> FALSE, before |-> chatFiles, after |-> chatFiles',
                              was |-> Completed])
             ELSE /\ WritePath(pathJoin(id), AbsentFile)
                  /\ Respond(r, 200, [success |-> TRUE],
                             [existed |-> TRUE, before |-> chatFiles, after |-> chatFiles',
                              was |-> Completed])
    /\ UNCHANGED <<now, serverUp, lastSaved, sse, reader, clientVars>>

\* server.js:106-107, GET /api/chats up to fs.readdir
GetApiChatsStart(from) == [op |-> "GET /api/chats", from |-> from, st |-> "fs"]

GetApiChats(from) ==
        /\ Arrive(GetApiChatsStart(from))
        /\ UNCHANGED <<now, serverUp, chatFiles, settingsFile, lastSaved, sse, reader, clientVars>>

\* the orders in which a directory scan can return the names in S
RECURSIVE Orders(_)
Orders(S) ==
    IF S = {} THEN { << >> }
    ELSE UNION { { <<x>> \o rest : rest \in Orders(S \ {x}) } : x \in S }

\* server.js:107, fs.readdir runs at some moment before its callback; every
\* name in the model ends with .json (server.js:113)
GetApiChatsReaddir(r) ==
    /\ Pending(r)
    /\ http[r].op = "GET /api/chats"
    /\ http[r].st = "fs"
    /\ \E files \in Orders({id \in ChatIds : chatFiles[id].kind # "absent"}) :
          http' = [http EXCEPT ![r] = [@ EXCEPT !.st = "callback"]
                                           @@ [files |-> files, scanned |-> Completed]]
    /\ UNCHANGED <<now, serverUp, chatFiles, settingsFile, lastSaved, sse, reader, clientVars>>

\* server.js:114-122, one summary; chatData.title is never falsy in a file
\* POST /api/chats wrote, 'Untitled Chat' covers files of other origin
Summary(id, file) ==
    LET data == JSONparse(file)
    IN  [id |-> id,
         title |-> IF FalsyStr(data, "title") THEN <<"Untitled Chat">> ELSE data.title,
         timestamp |-> data.timestamp]

SortNone(seq) == seq

\* Array.prototype.sort with (a, b) => new Date(b.timestamp) - new Date(a.timestamp):
\* stable, timestamp descending
RECURSIVE SortByTimestampDesc(_)
SortByTimestampDesc(seq) ==
    IF seq = << >> THEN << >>
    ELSE LET rest == SortByTimestampDesc(Tail(seq))
             x == Head(seq)
             k == Cardinality({i \in 1..Len(rest) : rest[i].timestamp > x.timestamp})
         IN  SubSeq(rest, 1, k) \o <<x>> \o SubSeq(rest, k + 1, Len(rest))

\* server.js:108-126, the readdir callback.  JSON.parse (or readFileSync of
\* a file unlinked since the scan) throws inside the callback: nothing
\* catches it and the process exits.
GetApiChatsCallback(r) ==
    /\ Pending(r)
    /\ http[r].op = "GET /api/chats"
    /\ http[r].st = "callback"
    /\ serverUp
    /\ LET files == http[r].files
           saw == [i \in 1..Len(files) |-> chatFiles[files[i]].kind]
       IN  IF \E i \in 1..Len(files) : ~ParseOk(chatFiles[files[i]])
             THEN /\ serverUp' = FALSE
                  /\ http' = [http EXCEPT ![r] = [@ EXCEPT !.st = "lost"] @@ [hist |-> [saw |-> saw]]]
             ELSE /\ Respond(r, 200,
                              [array |-> SortByTimestampDesc(
                                   [i \in 1..Len(files) |-> Summary(files[i], chatFiles[files[i]])])],
                              [saw |-> saw, docs |-> [i \in 1..Len(files) |-> chatFiles[files[i]]]])
                  /\ UNCHANGED serverUp
    /\ UNCHANGED <<now, chatFiles, settingsFile, lastSaved, sse, reader, clientVars>>

\* GET /api/chats/:id, the route loadChat calls (script.js:614); server.js
\* has no such route, it is modelled from the interface description:
\* "full Conversation or 404"
GetApiChatStart(from, id) ==
    [op |-> "GET /api/chats/:id", from |-> from, id |-> id, st |-> "fs"]

GetApiChat(from, id) ==
        /\ Arrive(GetApiChatStart(from, id))
        /\ UNCHANGED <<now, serverUp, chatFiles, settingsFile, lastSaved, sse, reader, clientVars>>

GetApiChatRead(r) ==
    /\ Pending(r)
    /\ http[r].op = "GET /api/chats/:id"
    /\ LET file == chatFiles[http[r].id]
           hist == [saved |-> lastSaved[http[r].id], was |-> Completed]
       IN  CASE file.kind = "absent" -> Respond(r, 404, [error |-> "Chat not found"], hist)
             [] file.kind = "corrupt" -> Respond(r, 500, [error |-> "Failed to load chat"], hist)
             [] OTHER -> Respond(r, 200, JSONparse(file), hist)
    /\ UNCHANGED <<now, serverUp, chatFiles, settingsFile, lastSaved, sse, reader, clientVars>>

\* A conversation file whose bytes are not JSON: fs.writeFile truncates and
\* then writes (server.js:143-145), and data/chats is an ordinary directory.
CorruptChatFile(id) ==
    /\ chatFiles[id].kind = "json"
    /\ chatFiles' = [chatFiles EXCEPT ![id] = CorruptFile]
    /\ UNCHANGED <<now, serverUp, settingsFile, http, lastSaved, sse, reader, clientVars>>

\* ------------------------------------------------------- settings store
\* server.js:166-167, GET /api/settings up to fs.readFile
GetApiSettingsStart(from) == [op |-> "GET /api/settings", from |-> from, st |-> "fs"]

GetApiSettings(from) ==
        /\ Arrive(GetApiSettingsStart(from))
        /\ UNCHANGED <<now, serverUp, chatFiles, settingsFile, lastSaved, sse, reader, clientVars>>

\* server.js:167-172, fs.readFile and its callback: ENOENT is an err
GetApiSettingsReadFile(r) ==
    /\ Pending(r)
    /\ http[r].op = "GET /api/settings"
    /\ IF settingsFile.kind = "absent"
         THEN Respond(r, 500, [error |-> "Failed to read settings"],
                      [missing |-> TRUE, after |-> settingsFile])
         ELSE Respond(r, 200, JSONparse(settingsFile),
                      [missing |-> FALSE, after |-> settingsFile, was |-> Completed])
    /\ UNCHANGED <<now, serverUp, chatFiles, settingsFile, lastSaved, sse, reader, clientVars>>

\* server.js:175-178, POST /api/settings up to fs.writeFile
PostApiSettingsStart(from, settings) ==
    [op |-> "POST /api/settings", from |-> from, body |-> settings, st |-> "fs"]

PostApiSettings(from, settings) ==
        /\ Arrive(PostApiSettingsStart(from, settings))
        /\ UNCHANGED <<now, serverUp, chatFiles, settingsFile, lastSaved, sse, reader, clientVars>>

\* a writeFile that keeps the fields of the file the body does not name
PostApiSettingsWriteFileMerge(r) ==
    /\ Pending(r)
    /\ http[r].op = "POST /api/settings"
    /\ settingsFile' = IF ParseOk(settingsFile)
                          THEN JSONstringify(http[r].body @@ JSONparse(settingsFile))
                          ELSE JSONstringify(http[r].body)
    /\ Respond(r, 200, [success |-> TRUE], [written |-> TRUE, was |-> Completed])
    /\ UNCHANGED <<now, serverUp, chatFiles, lastSaved, sse, reader, clientVars>>

\* server.js:178-183, fs.writeFile and its callback
PostApiSettingsWriteFile(r) ==
    /\ Pending(r)
    /\ http[r].op = "POST /api/settings"
    /\ settingsFile' = JSONstringify(http[r].body)
    /\ Respond(r, 200, [success |-> TRUE], [written |-> TRUE, was |-> Completed])
    /\ UNCHANGED <<now, serverUp, chatFiles, lastSaved, sse, reader, clientVars>>

\* server.js:178-181, fs.writeFile reports an err (the data directory is
\* gone or not writable): nothing is written
PostApiSettingsWriteFileErr(r) ==
    /\ Pending(r)
    /\ http[r].op = "POST /api/settings"
    /\ Respond(r, 500, [error |-> "Failed to save settings"], [written |-> FALSE])
    /\ UNCHANGED <<now, serverUp, chatFiles, settingsFile, lastSaved, sse, reader, clientVars>>

\* data/settings.json is created at startup only (server.js:54-57); later it
\* is an ordinary file that can be removed
RemoveSettingsFile ==
    /\ settingsFile.kind # "absent"
    /\ settingsFile' = AbsentFile
    /\ UNCHANGED <<now, serverUp, chatFiles, http, lastSaved, sse, reader, clientVars>>

\* ------------------------------------------- simulated relay (SSE)
\* server.js:91, the fixed response; the model streams its first
\* MaxResponse characters
responseText ==
    <<"T", "h", "i", "s", " ", "i", "s", " ", "a", " ", "s", "i", "m", "u", "l", "a", "t", "e", "d">>
response == SubSeq(responseText, 1, MaxResponse)

DONE == [done |-> TRUE]

\* server.js:79-94, POST /api/chat: headers written, index = 0, timer set.
\* out is what res.write has emitted, rcvd how much of it reached the client.
PostApiChat ==
    /\ serverUp
    /\ Len(sse) < MaxConns
    /\ sse' = Append(sse, [index |-> 0, interval |-> TRUE, out |-> << >>, ended |-> FALSE,
                           rcvd |-> 0, clientOpen |-> TRUE])
    /\ UNCHANGED <<now, storeVars, reader, clientVars>>

IntervalNoClear(c) ==
    /\ c \in DOMAIN sse
    /\ sse[c].interval
    /\ Len(sse[c].out) <= Len(response) + 2
    /\ IF sse[c].index < Len(response)
         THEN sse' = [sse EXCEPT ![c].out = Append(@, [content |-> response[sse[c].index + 1]]),
                                 ![c].index = @ + 1]
         ELSE sse' = [sse EXCEPT ![c].out = Append(@, DONE), ![c].ended = TRUE]
    /\ UNCHANGED <<now, storeVars, reader, clientVars>>

\* a relay whose connections count with one index
IntervalSharedIndex(c) ==
    /\ c \in DOMAIN sse
    /\ serverUp
    /\ sse[c].interval
    /\ IF sse[c].index < Len(response)
         THEN sse' = [k \in DOMAIN sse |->
                         IF k = c
                           THEN [sse[k] EXCEPT !.out = Append(@, [content |-> response[sse[c].index + 1]]),
                                               !.index = @ + 1]
                           ELSE [sse[k] EXCEPT !.index = @ + 1]]
         ELSE sse' = [sse EXCEPT ![c].interval = FALSE,
                                 ![c].out = Append(@, DONE),
                                 ![c].ended = TRUE]
    /\ UNCHANGED <<now, storeVars, reader, clientVars>>

\* server.js:94-103, one run of the setInterval callback (response[index]
\* is 0-based in the source, sequences are 1-based here)
Interval(c) ==
    /\ c \in DOMAIN sse
    /\ serverUp
    /\ sse[c].interval
    /\ IF sse[c].index < Len(response)
         THEN sse' = [sse EXCEPT ![c].out = Append(@, [content |-> response[sse[c].index + 1]]),
                                 ![c].index = @ + 1]
         ELSE sse' = [sse EXCEPT ![c].interval = FALSE,
                                 ![c].out = Append(@, DONE),
                                 ![c].ended = TRUE]
    /\ UNCHANGED <<now, storeVars, reader, clientVars>>

\* the transport hands the next written frame to the client, in order
SseDeliver(c) ==
    /\ c \in DOMAIN sse
    /\ sse[c].clientOpen
    /\ sse[c].rcvd < Len(sse[c].out)
    /\ sse' = [sse EXCEPT ![c].rcvd = @ + 1]
    /\ UNCHANGED <<now, storeVars, reader, clientVars>>

\* the client goes away; server.js registers no 'close' handler on req/res
SseClientClose(c) ==
    /\ c \in DOMAIN sse
    /\ sse[c].clientOpen
    /\ sse' = [sse EXCEPT ![c].clientOpen = FALSE]
    /\ UNCHANGED <<now, storeVars, reader, clientVars>>

NextRelay ==
    \/ PostApiChat
    \/ \E c \in DOMAIN sse : Interval(c)
    \/ \E c \in DOMAIN sse : SseDeliver(c)
    \/ \E c \in DOMAIN sse : SseClientClose(c)

SpecRelay == Init /\ [][NextRelay]_vars

\* ------------------------------------------- requests of any HTTP client
ExtIds == {ChatId(0), ChatId(1)}

ExtMsgA == [id |-> MsgId(0), role |-> "user", content |-> <<"a">>, timestamp |-> 0]
ExtMsgB == [id |-> MsgId(1), role |-> "assistant", content |-> <<"b">>, timestamp |-> 0]

ExtBodies ==
    { [id |-> id, title |-> <<"T">>, messages |-> ms] :
          id \in ExtIds, ms \in {<<ExtMsgA, ExtMsgB>>, <<ExtMsgB, ExtMsgA>>} }
    \cup { [title |-> <<"T">>, messages |-> <<ExtMsgA>>],
           [id |-> ChatId(0), title |-> << >>, messages |-> <<ExtMsgA>>],
           [id |-> ChatId(0), title |-> <<"T">>],
           [id |-> ChatId(1), title |-> <<"U">>, messages |-> << >>] }

\* data/chats as an earlier run of the server left it: one conversation
StoredBody == [id |-> ChatId(0), title |-> <<"T">>, messages |-> <<ExtMsgA>>]

InitStored ==
    /\ chatFiles = [id \in ChatIds |->
                       IF id = ChatId(0) THEN JSONstringify(chatData(StoredBody, 0))
                       ELSE AbsentFile]
    /\ lastSaved = [id \in ChatIds |-> IF id = ChatId(0) THEN StoredBody ELSE << >>]
    /\ reader = [st |-> "idle"]    \* no streamChatCompletion call has been made
    /\ InitRest

ExtPostChats == \E body \in ExtBodies : PostApiChats("ext", body)
ExtDeleteChat == \E id \in ExtIds : DeleteApiChat("ext", id)
ExtGetChats == GetApiChats("ext")
ExtGetChat == \E id \in ExtIds : GetApiChat("ext", id)

ExtSettings ==
    { defaultSettings,
      [defaultSettings EXCEPT !.model = "llama2", !.temperature = 12],
      [model |-> "mistral"] }

ExtGetSettings == GetApiSettings("ext")
ExtPostSettings == \E settings \in ExtSettings : PostApiSettings("ext", settings)

NextChatStore ==
    \/ Tick
    \/ ExtPostChats
    \/ ExtDeleteChat
    \/ ExtGetChats
    \/ ExtGetChat
    \/ \E r \in DOMAIN http : PostApiChatsWriteFile(r)
    \/ \E r \in DOMAIN http : DeleteApiChatUnlink(r)
    \/ \E r \in DOMAIN http : GetApiChatsReaddir(r)
    \/ \E r \in DOMAIN http : GetApiChatsCallback(r)
    \/ \E r \in DOMAIN http : GetApiChatRead(r)
    \/ \E id \in ExtIds : CorruptChatFile(id)

SpecChatStore == Init /\ [][NextChatStore]_vars

\* saving, loading and deleting conversations, without listing
NextSaveLoad ==
    \/ ExtPostChats
    \/ ExtGetChat
    \/ ExtDeleteChat
    \/ \E r \in DOMAIN http : PostApiChatsWriteFile(r)
    \/ \E r \in DOMAIN http : GetApiChatRead(r)
    \/ \E r \in DOMAIN http : DeleteApiChatUnlink(r)

SpecSaveLoad == Init /\ [][NextSaveLoad]_vars

\* saves, deletes and listings of any HTTP client, no file damaged
NextListing ==
    \/ Tick
    \/ ExtPostChats
    \/ ExtDeleteChat
    \/ ExtGetChats
    \/ \E r \in DOMAIN http : PostApiChatsWriteFile(r)
    \/ \E r \in DOMAIN http : DeleteApiChatUnlink(r)
    \/ \E r \in DOMAIN http : GetApiChatsReaddir(r)
    \/ \E r \in DOMAIN http : GetApiChatsCallback(r)

SpecListing == Init /\ [][NextListing]_vars

\* deleting, with the saves, listings and loads around it
NextDeletion ==
    \/ ExtPostChats
    \/ ExtDeleteChat
    \/ ExtGetChats
    \/ ExtGetChat
    \/ \E r \in DOMAIN http : PostApiChatsWriteFile(r)
    \/ \E r \in DOMAIN http : DeleteApiChatUnlink(r)
    \/ \E r \in DOMAIN http : GetApiChatsReaddir(r)
    \/ \E r \in DOMAIN http : GetApiChatsCallback(r)
    \/ \E r \in DOMAIN http : GetApiChatRead(r)

SpecDeletion == InitStored /\ [][NextDeletion]_vars

\* ids that are paths
PathIds == ExtIds \cup {DotDot("settings")}

PathBodies == {[id |-> id, title |-> <<"T">>, messages |-> <<ExtMsgA>>] : id \in PathIds}

\* saves and deletes under any id, with the settings routes beside them
NextPaths ==
    \/ \E body \in PathBodies : PostApiChats("ext", body)
    \/ \E id \in PathIds : DeleteApiChat("ext", id)
    \/ ExtGetSettings
    \/ \E r \in DOMAIN http : PostApiChatsWriteFile(r)
    \/ \E r \in DOMAIN http : DeleteApiChatUnlink(r)
    \/ \E r \in DOMAIN http : GetApiSettingsReadFile(r)

SpecPaths == Init /\ [][NextPaths]_vars

NextSettings ==
    \/ ExtGetSettings
    \/ ExtPostSettings
    \/ \E r \in DOMAIN http : GetApiSettingsReadFile(r)
    \/ \E r \in DOMAIN http : PostApiSettingsWriteFile(r)
    \/ RemoveSettingsFile

SpecSettings == Init /\ [][NextSettings]_vars

\* ------------------------------------------ session controller (script.js)
\* history: what the last handler run was, kept for regenerateResponse, for
\* websocket.onclose and for the continuation of loadChat
NoEvent == [fn |-> "other"]
Ran(fn, arg) == event' = [fn |-> fn, arg |-> arg]

Get(obj, key) == IF key \in DOMAIN obj THEN obj[key] ELSE Undefined

\* script.js:233-237 as written: the list, which already holds the turn that
\* addMessageToChat pushed at line 209, mapped to role and content, and then
\* the new user turn pushed once more
apiMessages(msgs, message) ==
    [i \in DOMAIN msgs |-> [role |-> msgs[i].role, content |-> msgs[i].content]]
        \o <<[role |-> "user", content |-> message]>>

\* script.js:204-350, sendMessage run on the list, the elements and the input
\* it finds; d is the time that passes between Date.now() at line 426 and
\* Date.now() at line 251.  new WebSocket does not throw for this URL, so the
\* catch block at 351-364 is not entered.
sendMessage(msgs, els, input, d, via) ==
    LET message == trim(input)
    IN  IF message = << >> \/ isGenerating
          THEN /\ currentMessages' = msgs
               /\ dom' = els
               /\ messageInput' = input
               /\ UNCHANGED <<now, websocket, isGenerating, ws>>
          ELSE \E k \in 1..MaxSockets :
               /\ ws[k] = NoSocket
               /\ \A j \in 1..(k - 1) : ws[j] # NoSocket
               /\ Len(msgs) < MaxMsgs
               /\ Len(els) < MaxDom
               /\ now + d <= MaxClock
               /\ LET pushed == Append(msgs, msgObj("user", message, Null, now))
                  IN  /\ currentMessages' = pushed
                      /\ dom' = Append(els, messageDiv("user", Null, MsgId(now)))
                      /\ messageInput' = << >>
                      /\ isGenerating' = TRUE
                      /\ websocket' = k
                      /\ ws' = [ws EXCEPT ![k] =
                                  [st |-> "connecting",
                                   apiMessages |-> apiMessages(pushed, message),
                                   divId |-> MsgId(now + d),
                                   responseContent |-> << >>,
                                   contentDiv |-> "empty",
                                   sent |-> << >>,
                                   echoed |-> 0,
                                   via |-> via,
                                   listAtCall |-> msgs,
                                   listAtSend |-> pushed,
                                   message |-> message,
                                   settingsAtSend |-> currentSettings,
                                   chatId |-> currentChatId]]
                      /\ now' = now + d

\* script.js:529-546, saveCurrentChat up to the fetch, for the list msgs
chatDataOf(msgs) ==
    [id |-> currentChatId,
     title |-> IF chatTitle = << >> THEN NewChat ELSE chatTitle,
     messages |-> msgs,
     timestamp |-> now]

saveCurrentChat(msgs, why) ==
    IF Falsy(currentChatId) \/ Len(msgs) = 0
      THEN UNCHANGED http
      ELSE fetch(PostApiChatsStart([fn |-> "saveCurrentChat", why |-> why], chatDataOf(msgs)))

\* the user types into #message-input
InputTexts == {<<"h", " ">>}

TypeInput ==
    /\ \E text \in InputTexts : messageInput' = text
    /\ messageInput' # messageInput
    /\ event' = NoEvent
    /\ notice' = "none"
    /\ UNCHANGED <<now, storeVars, sse, reader, currentChatId, created, currentMessages, currentSettings, settingsModal, websocket,
                   isGenerating, chatTitle, dom, editModal, editMessageId, chatHistory, ws, edited>>

\* script.js:73-80, click on send or Enter
SendClick ==
    /\ \E d \in {0, 1} : sendMessage(currentMessages, dom, messageInput, d, "send")
    /\ event' = NoEvent
    /\ notice' = "none"
    /\ edited' = IF currentMessages' # currentMessages THEN NoEdit ELSE edited
    /\ UNCHANGED <<storeVars, sse, reader, currentChatId, created, currentSettings, settingsModal, chatTitle, editModal,
                   editMessageId, chatHistory>>

\* script.js:240-246, websocket.onopen: websocket is the global, null once
\* another socket's onclose or onerror has run (then send throws)
WsOpen(k) ==
    /\ ws[k].st = "connecting"
    /\ LET opened == [ws EXCEPT ![k].st = "open"]
           payload == [messages |-> ws[k].apiMessages, settings |-> currentSettings]
       IN  ws' = IF websocket # 0 /\ opened[websocket].st = "open"
                   THEN [opened EXCEPT ![websocket].sent = Append(@, JSONstringify(payload))]
                   ELSE opened
    /\ event' = NoEvent
    /\ notice' = "none"
    /\ UNCHANGED <<now, storeVars, sse, reader, currentChatId, created, currentMessages, currentSettings, settingsModal, websocket,
                   isGenerating, chatTitle, dom, messageInput, editModal, editMessageId,
                   chatHistory, edited>>

\* the frames the peer of the socket may send
Frames ==
    { JSONstringify([type |-> "message", content |-> <<"x">>]),
      JSONstringify([type |-> "message"]),
      JSONstringify([type |-> "error", message |-> <<"m">>]),
      CorruptFile }

\* the frames of a relay that only streams content
ContentFrames == {JSONstringify([type |-> "message", content |-> <<"x">>])}

\* script.js:282-303, websocket.onmessage, as the change it makes to the
\* closure of its socket; JSON.parse throws on text that is not JSON
onmessage(sock, frame) ==
    IF ~ParseOk(frame)
      THEN sock
      ELSE LET data == JSONparse(frame)
           IN  IF Get(data, "type") = "message"
                 THEN [sock EXCEPT !.responseContent = @ \o Get(data, "content"),
                                   !.contentDiv = "response"]
                 ELSE IF Get(data, "type") = "error"
                        THEN [sock EXCEPT !.contentDiv = "error"]
                        ELSE sock

\* a frame of the relay reaches the page
WsMessage(k, frame) ==
    /\ ws[k].st = "open"
    /\ ws[k].sent # << >>
    /\ Len(onmessage(ws[k], frame).responseContent) <= MaxChunks
    /\ ws' = [ws EXCEPT ![k] = onmessage(@, frame)]
    /\ Ran("onmessage", [socket |-> k, frame |-> frame, before |-> ws[k].responseContent])
    /\ notice' = "none"
    /\ UNCHANGED <<now, storeVars, sse, reader, currentChatId, created, currentMessages, currentSettings, settingsModal, websocket,
                   isGenerating, chatTitle, dom, messageInput, editModal, editMessageId,
                   chatHistory, edited>>

\* server.js:186-192, the WebSocket server of server.js: every message is
\* sent back as the text `Echo: ${message}`, and the socket is never closed
Echo(message) == [kind |-> "text", value |-> <<"Echo: ", message>>]

wssOnMessage(k) ==
    /\ ws[k].st = "open"
    /\ ws[k].echoed < Len(ws[k].sent)
    /\ ws' = [ws EXCEPT ![k] = onmessage([@ EXCEPT !.echoed = @ + 1],
                                         Echo(ws[k].sent[ws[k].echoed + 1]))]
    /\ event' = NoEvent
    /\ notice' = "none"
    /\ UNCHANGED <<now, storeVars, sse, reader, currentChatId, created, currentMessages, currentSettings, settingsModal, websocket,
                   isGenerating, chatTitle, dom, messageInput, editModal, editMessageId,
                   chatHistory, edited>>

\* script.js:335-350, websocket.onerror
WsError(k) ==
    /\ ws[k].st \in {"connecting", "open"}
    /\ ws' = [ws EXCEPT ![k].st = "errored"]
    /\ currentMessages' = Append(currentMessages, msgObj("assistant", Sorry, Null, now))
    /\ dom' = Append(dom, messageDiv("assistant", Null, MsgId(now)))
    /\ isGenerating' = FALSE
    /\ websocket' = 0
    /\ event' = NoEvent
    /\ notice' = "Sorry"
    /\ edited' = NoEdit
    /\ UNCHANGED <<now, storeVars, sse, reader, currentChatId, created, currentSettings, settingsModal, chatTitle, messageInput,
                   editModal, editMessageId, chatHistory>>

\* script.js:306-332, websocket.onclose; an error is followed by the close
WsClose(k) ==
    /\ ws[k].st \in {"open", "errored"}
    /\ IF ws[k].responseContent # << >>
         THEN LET pushed == Append(currentMessages,
                                   msgObj("assistant", ws[k].responseContent, ws[k].divId, now))
              IN  /\ dom' = Append(dom, messageDiv("assistant", ws[k].divId, ws[k].divId))
                  /\ currentMessages' = pushed
                  /\ saveCurrentChat(pushed, "onclose")
                  /\ edited' = NoEdit
         ELSE UNCHANGED <<dom, currentMessages, http, edited>>
    /\ isGenerating' = FALSE
    /\ websocket' = 0
    /\ ws' = [ws EXCEPT ![k] = NoSocket]
    /\ Ran("onclose", [via |-> ws[k].via, listAtCall |-> ws[k].listAtCall,
                       listAtSend |-> ws[k].listAtSend, listAtClose |-> currentMessages,
                       sent |-> ws[k].sent, responseContent |-> ws[k].responseContent,
                       contentDiv |-> ws[k].contentDiv,
                       st |-> ws[k].st, requests |-> Len(http), chatId |-> ws[k].chatId])
    /\ notice' = "none"
    /\ UNCHANGED <<now, serverUp, chatFiles, settingsFile, lastSaved, sse, reader, currentChatId, created,
                   currentSettings, settingsModal, chatTitle, messageInput, editModal, editMessageId, chatHistory>>

RemoveAt(seq, i) == SubSeq(seq, 1, i - 1) \o SubSeq(seq, i + 1, Len(seq))

\* script.js:491-514, click on the regenerate button of element i
RegenerateClick(i) ==
    /\ ~editModal
    /\ dom[i].btn = "regenerate"
    /\ LET messageId == dom[i].dataId
           messageIndex == findIndex(currentMessages, messageId)
       IN  IF \/ isGenerating
              \/ messageIndex <= 1
              \/ currentMessages[messageIndex - 1].role # "user"
             THEN UNCHANGED <<now, currentMessages, dom, messageInput, websocket, isGenerating, ws>>
             ELSE \E d \in {0, 1} :
                    sendMessage(SubSeq(currentMessages, 1, messageIndex - 1), RemoveAt(dom, i),
                                currentMessages[messageIndex - 1].content, d, "regenerate")
    /\ Ran("regenerateResponse", dom[i])
    /\ notice' = "none"
    /\ edited' = IF currentMessages' # currentMessages THEN NoEdit ELSE edited
    /\ UNCHANGED <<storeVars, sse, reader, currentChatId, created, currentSettings, settingsModal, chatTitle, editModal,
                   editMessageId, chatHistory>>

\* script.js:433-442, click on the edit button of element i.  The button
\* that saveEditedMessage re-adds (470) passes the parent of the parent of
\* .message-content, which is #chat-messages and has no data-id.
EditClick(i) ==
    /\ ~editModal
    /\ dom[i].btn \in {"edit", "editContainer"}
    /\ LET messageId == IF dom[i].btn = "edit" THEN dom[i].dataId ELSE Undefined
       IN  IF findIndex(currentMessages, messageId) # 0
             THEN /\ editMessageId' = messageId
                  /\ editModal' = TRUE
                  /\ edited' = [stage |-> "editing", id |-> dom[i].shows, role |-> dom[i].role]
             ELSE UNCHANGED <<editMessageId, editModal, edited>>
    /\ event' = NoEvent
    /\ notice' = "none"
    /\ UNCHANGED <<now, storeVars, sse, reader, currentChatId, created, currentMessages, currentSettings, settingsModal, websocket,
                   isGenerating, chatTitle, dom, messageInput, chatHistory, ws>>

\* what the user leaves in #edit-message-content
EditTexts == {<<"e">>}

\* document.querySelector(`[data-id="${messageId}"] .message-content`),
\* 0 when there is none
querySelector(els, messageId) ==
    IF \E i \in DOMAIN els : els[i].dataId = messageId
      THEN CHOOSE i \in DOMAIN els :
               els[i].dataId = messageId /\ \A j \in 1..(i - 1) : els[j].dataId # messageId
      ELSE 0

\* a saveEditedMessage that writes the new content into every message
saveEditedMessageAll(newContent) ==
    /\ editModal
    /\ LET messageId == editMessageId
           messageIndex == findIndex(currentMessages, messageId)
           messageElement == querySelector(dom, messageId)
           msgs == IF messageIndex # 0
                     THEN [i \in DOMAIN currentMessages |->
                             [currentMessages[i] EXCEPT !.content = newContent]]
                     ELSE currentMessages
       IN  /\ currentMessages' = msgs
           /\ dom' = IF messageElement # 0
                       THEN [dom EXCEPT ![messageElement].btn = "editContainer"]
                       ELSE dom
           /\ saveCurrentChat(msgs, "saveEditedMessage")
           /\ edited' = IF edited.stage = "editing"
                          THEN [stage |-> "saving", id |-> edited.id, role |-> edited.role,
                                content |-> newContent, chat |-> currentChatId,
                                body |-> chatDataOf(msgs)]
                          ELSE NoEdit
    /\ editModal' = FALSE
    /\ Ran("saveEditedMessage", [id |-> editMessageId, newContent |-> newContent,
                                 before |-> currentMessages])
    /\ notice' = "none"
    /\ UNCHANGED <<now, serverUp, chatFiles, settingsFile, lastSaved, sse, reader, currentChatId, created,
                   currentSettings, settingsModal, websocket, isGenerating, chatTitle, messageInput,
                   editMessageId, chatHistory, ws>>

\* script.js:445-488, submit of the edit form
saveEditedMessage(newContent) ==
    /\ editModal
    /\ LET messageId == editMessageId
           messageIndex == findIndex(currentMessages, messageId)
           messageElement == querySelector(dom, messageId)
           msgs == IF messageIndex # 0
                     THEN [currentMessages EXCEPT ![messageIndex].content = newContent]
                     ELSE currentMessages
       IN  /\ currentMessages' = msgs
           /\ dom' = IF messageElement # 0
                       THEN [dom EXCEPT ![messageElement].btn = "editContainer"]
                       ELSE dom
           /\ saveCurrentChat(msgs, "saveEditedMessage")
           /\ edited' = IF edited.stage = "editing"
                          THEN [stage |-> "saving", id |-> edited.id, role |-> edited.role,
                                content |-> newContent, chat |-> currentChatId,
                                body |-> chatDataOf(msgs)]
                          ELSE NoEdit
    /\ editModal' = FALSE
    /\ Ran("saveEditedMessage", [id |-> editMessageId, newContent |-> newContent,
                                 before |-> currentMessages])
    /\ notice' = "none"
    /\ UNCHANGED <<now, serverUp, chatFiles, settingsFile, lastSaved, sse, reader, currentChatId, created,
                   currentSettings, settingsModal, websocket, isGenerating, chatTitle, messageInput,
                   editMessageId, chatHistory, ws>>

\* script.js:126-128 and 140-144, cancel or click outside the modal
CancelEdit ==
    /\ editModal
    /\ editModal' = FALSE
    /\ edited' = NoEdit
    /\ event' = NoEvent
    /\ notice' = "none"
    /\ UNCHANGED <<now, storeVars, sse, reader, currentChatId, created, currentMessages, currentSettings, settingsModal, websocket,
                   isGenerating, chatTitle, dom, messageInput, editMessageId, chatHistory, ws>>

\* script.js:157-169
\* a createNewChat that keeps the conversation id
createNewChatSameId ==
    /\ UNCHANGED currentChatId
    /\ created' = created \cup {ChatId(now)}
    /\ currentMessages' = <<msgObj("assistant", Greeting, Null, now)>>
    /\ chatTitle' = NewChat
    /\ dom' = <<messageDiv("assistant", Null, MsgId(now))>>

createNewChat ==
    /\ currentChatId' = ChatId(now)
    /\ created' = created \cup {ChatId(now)}
    /\ currentMessages' = <<msgObj("assistant", Greeting, Null, now)>>
    /\ chatTitle' = NewChat
    /\ dom' = <<messageDiv("assistant", Null, MsgId(now))>>

\* what createNewChat found: the conversation it replaces and the ids
\* assigned before
Replaced == [previous |-> currentChatId, before |-> currentMessages, created |-> created]

\* Clicks are further apart than a tick of Date.now(): the button is taken
\* once the clock has moved past the creation of the current chat and of
\* every chat created before it.
NewChatClick ==
    /\ ~editModal
    /\ currentChatId # ChatId(now)
    /\ ChatId(now) \notin created
    /\ createNewChat
    /\ Ran("createNewChat", Replaced)
    /\ notice' = "none"
    /\ edited' = NoEdit
    /\ UNCHANGED <<now, storeVars, sse, reader, currentSettings, settingsModal, websocket, isGenerating, messageInput,
                   editModal, editMessageId, chatHistory, ws>>

\* the exchange r has ended for the client: a response, or a rejected fetch
Settled(r, fn) ==
    /\ r \in DOMAIN http
    /\ http[r].st \in {"done", "refused", "lost"}
    /\ http[r].from.fn = fn

ResponseOk(r) == http[r].st = "done" /\ http[r].status \in 200..299

\* script.js:547-556, saveCurrentChat after the fetch: loadChatHistory
saveCurrentChatThen(r) ==
    /\ Settled(r, "saveCurrentChat")
    /\ IF ResponseOk(r)
         THEN /\ http' = [http EXCEPT ![r] = Accept(GetApiChatsStart([fn |-> "loadChatHistory"]))]
              /\ edited' = IF edited.stage = "saving" /\ http[r].body = edited.body
                             THEN [edited EXCEPT !.stage = "saved"]
                             ELSE edited
         ELSE /\ http' = RemoveAt(http, r)
              /\ UNCHANGED edited
    /\ event' = NoEvent
    /\ notice' = "none"
    /\ UNCHANGED <<now, serverUp, chatFiles, settingsFile, lastSaved, sse, reader, currentChatId, created,
                   currentMessages, currentSettings, settingsModal, websocket, isGenerating, chatTitle, dom,
                   messageInput, editModal, editMessageId, chatHistory, ws>>

\* script.js:560-574 after the fetch, with renderChatHistory (577-609): the
\* sidebar shows data.chats, or nothing when the body has no such key
renderedHistory(r) ==
    IF ResponseOk(r)
      THEN [error |-> FALSE,
            items |-> IF "chats" \in DOMAIN http[r].res THEN http[r].res.chats ELSE << >>]
      ELSE [error |-> TRUE, items |-> << >>]

loadChatHistoryThen(r) ==
    /\ Settled(r, "loadChatHistory")
    /\ chatHistory' = renderedHistory(r)
    /\ http' = RemoveAt(http, r)
    /\ Ran("loadChatHistory.then", [ok |-> ResponseOk(r), exchange |-> http[r]])
    /\ notice' = "none"
    /\ UNCHANGED <<now, serverUp, chatFiles, settingsFile, lastSaved, sse, reader, currentChatId, created,
                   currentMessages, currentSettings, settingsModal, websocket, isGenerating, chatTitle, dom,
                   messageInput, editModal, editMessageId, ws, edited>>

\* script.js:612-614, a click on a sidebar item.  Which items the sidebar
\* offers depends on the backend's listing; the click is taken for any id.
loadChat(chatId) ==
    /\ ~editModal
    /\ fetch(GetApiChatStart([fn |-> "loadChat"], chatId))
    /\ edited' = IF edited.stage = "saved" /\ edited.chat = chatId
                   THEN [edited EXCEPT !.stage = "reloading"]
                   ELSE NoEdit
    /\ event' = NoEvent
    /\ notice' = "none"
    /\ UNCHANGED <<now, serverUp, chatFiles, settingsFile, lastSaved, sse, reader, currentChatId, created,
                   currentMessages, currentSettings, settingsModal, websocket, isGenerating, chatTitle, dom,
                   messageInput, editModal, editMessageId, chatHistory, ws>>

\* script.js:625-631: currentMessages is the parsed array itself, and
\* addMessageToChat, called for each of its elements, pushes onto it
loadedMessages(messages, t) ==
    messages \o [i \in DOMAIN messages |->
                    msgObj(messages[i].role, messages[i].content, messages[i].id, t)]

loadedElements(messages) ==
    [i \in DOMAIN messages |-> messageDiv(messages[i].role, messages[i].id, messages[i].id)]

\* script.js:615-638, loadChat after the fetch
loadChatThen(r) ==
    /\ Settled(r, "loadChat")
    /\ IF ResponseOk(r)
         THEN LET chat == http[r].res
                  messages == IF "messages" \in DOMAIN chat THEN chat.messages ELSE << >>
              IN  /\ Len(messages) <= MaxLoad
                  /\ currentChatId' = Get(chat, "id")
                  /\ UNCHANGED created
                  /\ chatTitle' = Get(chat, "title")
                  /\ currentMessages' = loadedMessages(messages, now)
                  /\ dom' = loadedElements(messages)
                  /\ edited' = IF edited.stage = "reloading"
                                 THEN [edited EXCEPT !.stage = "reloaded"] @@ [loaded |-> messages]
                                 ELSE NoEdit
                  /\ Ran("loadChat.then", [ok |-> TRUE, id |-> http[r].id, stored |-> messages])
         ELSE /\ UNCHANGED <<currentChatId, created, chatTitle, currentMessages, dom>>
              /\ edited' = NoEdit
              /\ Ran("loadChat.then", [ok |-> FALSE, id |-> http[r].id])
    /\ http' = RemoveAt(http, r)
    /\ notice' = "none"
    /\ UNCHANGED <<now, serverUp, chatFiles, settingsFile, lastSaved, sse, reader, currentSettings, settingsModal,
                   websocket, isGenerating, messageInput, editModal, editMessageId, chatHistory,
                   ws>>

\* script.js:642-648, the delete button of a sidebar item, confirmed
deleteChat(chatId) ==
    /\ ~editModal
    /\ fetch(DeleteApiChatStart([fn |-> "deleteChat"], chatId))
    /\ edited' = NoEdit
    /\ event' = NoEvent
    /\ notice' = "none"
    /\ UNCHANGED <<now, serverUp, chatFiles, settingsFile, lastSaved, sse, reader, currentChatId, created,
                   currentMessages, currentSettings, settingsModal, websocket, isGenerating, chatTitle, dom,
                   messageInput, editModal, editMessageId, chatHistory, ws>>

\* script.js:650-664, deleteChat after the DELETE: loadChatHistory, or the
\* alert of the catch block
deleteChatThen(r) ==
    /\ Settled(r, "deleteChat")
    /\ IF ResponseOk(r)
         THEN /\ http' = [http EXCEPT ![r] =
                            Accept(GetApiChatsStart([fn |-> "deleteChat.loadChatHistory",
                                                     chatId |-> http[r].id]))]
              /\ notice' = "none"
         ELSE /\ http' = RemoveAt(http, r)
              /\ notice' = "Failed to delete chat"
    /\ event' = NoEvent
    /\ UNCHANGED <<now, serverUp, chatFiles, settingsFile, lastSaved, sse, reader, currentChatId, created,
                   currentMessages, currentSettings, settingsModal, websocket, isGenerating, chatTitle, dom,
                   messageInput, editModal, editMessageId, chatHistory, ws, edited>>

\* script.js:654-660, deleteChat after its loadChatHistory (which catches
\* its own errors): createNewChat when the deleted chat is the current one
deleteChatReloaded(r) ==
    /\ Settled(r, "deleteChat.loadChatHistory")
    /\ chatHistory' = renderedHistory(r)
    /\ http' = RemoveAt(http, r)
    /\ IF currentChatId = http[r].from.chatId
         THEN /\ ChatId(now) \notin created \cup {currentChatId}
              /\ createNewChat
              /\ Ran("createNewChat", Replaced)
         ELSE /\ UNCHANGED <<currentChatId, created, currentMessages, chatTitle, dom>>
              /\ event' = NoEvent
    /\ notice' = "none"
    /\ UNCHANGED <<now, serverUp, chatFiles, settingsFile, lastSaved, sse, reader, currentSettings, settingsModal,
                   websocket, isGenerating, messageInput, editModal, editMessageId, ws, edited>>

\* what the settings handlers of the page leave alone
ChatUntouched ==
    UNCHANGED <<currentChatId, created, currentMessages, websocket, isGenerating, chatTitle, dom,
                messageInput, editModal, editMessageId, chatHistory, ws, edited>>

\* script.js:172-174, the settings button
openSettingsModal ==
    /\ ~settingsModal
    /\ settingsModal' = TRUE
    /\ event' = NoEvent
    /\ notice' = "none"
    /\ ChatUntouched
    /\ UNCHANGED <<now, storeVars, sse, reader, currentSettings>>

\* script.js:99-104 and 137-140, a close button or a click outside the modal
closeSettingsModal ==
    /\ settingsModal
    /\ settingsModal' = FALSE
    /\ event' = NoEvent
    /\ notice' = "none"
    /\ ChatUntouched
    /\ UNCHANGED <<now, storeVars, sse, reader, currentSettings>>

\* what the settings form can hold: all five fields (script.js:736-742)
SettingsForms ==
    { defaultSettings,
      [defaultSettings EXCEPT !.model = "llama2", !.temperature = 12] }

\* script.js:732-745 with 683-691, submit of the settings form up to the
\* fetch of saveSettingsToServer
saveSettings(form) ==
    /\ settingsModal
    /\ currentSettings' = form
    /\ fetch(PostApiSettingsStart([fn |-> "saveSettings"], form))
    /\ event' = NoEvent
    /\ notice' = "none"
    /\ ChatUntouched
    /\ UNCHANGED <<now, serverUp, chatFiles, settingsFile, lastSaved, sse, reader, settingsModal>>

\* script.js:692-698 and 746-756: saveSettingsToServer catches what it
\* throws for a response that is not ok and what fetch rejects with, so the
\* await in saveSettings always returns: the modal is closed and "Settings
\* Saved!" is shown; loadAvailableModels in between (177-201) changes only
\* the options of the model selector.  The catch block at 757-760 with its
\* alert is not reached.
saveSettingsThen(r) ==
    /\ Settled(r, "saveSettings")
    /\ settingsModal' = FALSE
    /\ notice' = "Settings Saved!"
    /\ Ran("saveSettings.then", [ok |-> ResponseOk(r)])
    /\ http' = RemoveAt(http, r)
    /\ ChatUntouched
    /\ UNCHANGED <<now, serverUp, chatFiles, settingsFile, lastSaved, sse, reader, currentSettings>>

\* the options of the model selector
Models == {"gpt-3.5-turbo", "llama2"}

\* script.js:131-134, change of the model selector up to the fetch of
\* saveSettingsToServer, and after it (692-698): nothing is shown
modelSelectorChange(model) ==
    /\ model # currentSettings.model
    /\ currentSettings' = [currentSettings EXCEPT !.model = model]
    /\ fetch(PostApiSettingsStart([fn |-> "saveSettingsToServer"], currentSettings'))
    /\ event' = NoEvent
    /\ notice' = "none"
    /\ ChatUntouched
    /\ UNCHANGED <<now, serverUp, chatFiles, settingsFile, lastSaved, sse, reader, settingsModal>>

saveSettingsToServerThen(r) ==
    /\ Settled(r, "saveSettingsToServer")
    /\ http' = RemoveAt(http, r)
    /\ event' = NoEvent
    /\ notice' = "none"
    /\ ChatUntouched
    /\ UNCHANGED <<now, serverUp, chatFiles, settingsFile, lastSaved, sse, reader, currentSettings,
                   settingsModal>>

\* script.js:667-680, loadSettings up to the fetch, and after it
loadSettings ==
    /\ fetch(GetApiSettingsStart([fn |-> "loadSettings"]))
    /\ event' = NoEvent
    /\ notice' = "none"
    /\ ChatUntouched
    /\ UNCHANGED <<now, serverUp, chatFiles, settingsFile, lastSaved, sse, reader, currentSettings,
                   settingsModal>>

loadSettingsThen(r) ==
    /\ Settled(r, "loadSettings")
    /\ currentSettings' = IF ResponseOk(r) THEN http[r].res ELSE currentSettings
    /\ http' = RemoveAt(http, r)
    /\ event' = NoEvent
    /\ notice' = "none"
    /\ ChatUntouched
    /\ UNCHANGED <<now, serverUp, chatFiles, settingsFile, lastSaved, sse, reader, settingsModal>>

\* the settings dialog of the page against the settings routes
NextSettingsPage ==
    \/ openSettingsModal
    \/ closeSettingsModal
    \/ \E form \in SettingsForms : saveSettings(form)
    \/ \E model \in Models : modelSelectorChange(model)
    \/ loadSettings
    \/ RemoveSettingsFile
    \/ \E r \in DOMAIN http : PostApiSettingsWriteFile(r)
    \/ \E r \in DOMAIN http : PostApiSettingsWriteFileErr(r)
    \/ \E r \in DOMAIN http : GetApiSettingsReadFile(r)
    \/ \E r \in DOMAIN http : saveSettingsThen(r)
    \/ \E r \in DOMAIN http : saveSettingsToServerThen(r)
    \/ \E r \in DOMAIN http : loadSettingsThen(r)

SpecSettingsPage == Init /\ [][NextSettingsPage]_vars

\* one streaming session after another in one chat: send, the stream and
\* its failure, the save on completion, regenerate
NextStream ==
    \/ Tick
    \/ TypeInput
    \/ SendClick
    \/ \E k \in 1..MaxSockets : WsOpen(k)
    \/ \E k \in 1..MaxSockets, frame \in Frames : WsMessage(k, frame)
    \/ \E k \in 1..MaxSockets : WsError(k)
    \/ \E k \in 1..MaxSockets : WsClose(k)
    \/ \E i \in DOMAIN dom : RegenerateClick(i)
    \/ \E r \in DOMAIN http : PostApiChatsWriteFile(r)
    \/ \E r \in DOMAIN http : GetApiChatsReaddir(r)
    \/ \E r \in DOMAIN http : GetApiChatsCallback(r)
    \/ \E r \in DOMAIN http : saveCurrentChatThen(r)
    \/ \E r \in DOMAIN http : loadChatHistoryThen(r)

SpecStream == Init /\ [][NextStream]_vars

\* the page against the WebSocket server of server.js.  The socket opens and
\* the echo is sent whenever they can be (weak fairness); that the transport
\* fails or closes is possible but nothing makes it happen.
\* sockets and their callbacks in every order, with New Chat between them
NextSockets ==
    \/ Tick
    \/ TypeInput
    \/ SendClick
    \/ NewChatClick
    \/ \E k \in 1..MaxSockets : WsOpen(k)
    \/ \E k \in 1..MaxSockets, frame \in ContentFrames : WsMessage(k, frame)
    \/ \E k \in 1..MaxSockets : WsError(k)
    \/ \E k \in 1..MaxSockets : WsClose(k)
    \/ \E r \in DOMAIN http : PostApiChatsWriteFile(r)
    \/ \E r \in DOMAIN http : GetApiChatsReaddir(r)
    \/ \E r \in DOMAIN http : GetApiChatsCallback(r)
    \/ \E r \in DOMAIN http : saveCurrentChatThen(r)
    \/ \E r \in DOMAIN http : loadChatHistoryThen(r)

SpecSockets == Init /\ [][NextSockets]_vars

NextEcho ==
    \/ Tick
    \/ TypeInput
    \/ SendClick
    \/ \E k \in 1..MaxSockets : WsOpen(k)
    \/ \E k \in 1..MaxSockets : wssOnMessage(k)
    \/ \E k \in 1..MaxSockets : WsError(k)
    \/ \E k \in 1..MaxSockets : WsClose(k)

SpecEcho ==
    /\ Init
    /\ [][NextEcho]_vars
    /\ WF_vars(\E k \in 1..MaxSockets : WsOpen(k))
    /\ WF_vars(\E k \in 1..MaxSockets : wssOnMessage(k))

\* chat sessions: new chat, send, the stream, delete
NextSession ==
    \/ Tick
    \/ TypeInput
    \/ SendClick
    \/ \E k \in 1..MaxSockets : WsOpen(k)
    \/ \E k \in 1..MaxSockets, frame \in ContentFrames : WsMessage(k, frame)
    \/ \E k \in 1..MaxSockets : WsClose(k)
    \/ NewChatClick
    \/ \E chatId \in ChatIds : deleteChat(chatId)
    \/ \E r \in DOMAIN http : PostApiChatsWriteFile(r)
    \/ \E r \in DOMAIN http : GetApiChatsReaddir(r)
    \/ \E r \in DOMAIN http : GetApiChatsCallback(r)
    \/ \E r \in DOMAIN http : DeleteApiChatUnlink(r)
    \/ \E r \in DOMAIN http : saveCurrentChatThen(r)
    \/ \E r \in DOMAIN http : loadChatHistoryThen(r)
    \/ \E r \in DOMAIN http : deleteChatThen(r)
    \/ \E r \in DOMAIN http : deleteChatReloaded(r)

SpecSession == Init /\ [][NextSession]_vars

\* one conversation: send, the stream and its failure, save, load, edit
NextConversation ==
    \/ Tick
    \/ TypeInput
    \/ SendClick
    \/ \E k \in 1..MaxSockets : WsOpen(k)
    \/ \E k \in 1..MaxSockets, frame \in ContentFrames : WsMessage(k, frame)
    \/ \E k \in 1..MaxSockets : WsError(k)
    \/ \E k \in 1..MaxSockets : WsClose(k)
    \/ \E i \in DOMAIN dom : EditClick(i)
    \/ \E newContent \in EditTexts : saveEditedMessage(newContent)
    \/ CancelEdit
    \/ \E chatId \in ChatIds : loadChat(chatId)
    \/ \E r \in DOMAIN http : PostApiChatsWriteFile(r)
    \/ \E r \in DOMAIN http : GetApiChatsReaddir(r)
    \/ \E r \in DOMAIN http : GetApiChatsCallback(r)
    \/ \E r \in DOMAIN http : GetApiChatRead(r)
    \/ \E r \in DOMAIN http : saveCurrentChatThen(r)
    \/ \E r \in DOMAIN http : loadChatHistoryThen(r)
    \/ \E r \in DOMAIN http : loadChatThen(r)

SpecConversation == Init /\ [][NextConversation]_vars

\* editing in the current conversation, with the continuations that can
\* replace the list while the edit form is open
NextEditing ==
    \/ Tick
    \/ TypeInput
    \/ SendClick
    \/ \E k \in 1..MaxSockets : WsOpen(k)
    \/ \E k \in 1..MaxSockets, frame \in ContentFrames : WsMessage(k, frame)
    \/ \E k \in 1..MaxSockets : WsClose(k)
    \/ \E i \in DOMAIN dom : EditClick(i)
    \/ \E newContent \in EditTexts : saveEditedMessage(newContent)
    \/ loadChat(currentChatId)
    \/ deleteChat(currentChatId)
    \/ \E r \in DOMAIN http : PostApiChatsWriteFile(r)
    \/ \E r \in DOMAIN http : DeleteApiChatUnlink(r)
    \/ \E r \in DOMAIN http : GetApiChatsReaddir(r)
    \/ \E r \in DOMAIN http : GetApiChatsCallback(r)
    \/ \E r \in DOMAIN http : GetApiChatRead(r)
    \/ \E r \in DOMAIN http : saveCurrentChatThen(r)
    \/ \E r \in DOMAIN http : loadChatHistoryThen(r)
    \/ \E r \in DOMAIN http : loadChatThen(r)
    \/ \E r \in DOMAIN http : deleteChatThen(r)
    \/ \E r \in DOMAIN http : deleteChatReloaded(r)

SpecEditing == Init /\ [][NextEditing]_vars

\* ---------------------------------------------------------------- claims
Done(r, op) == r \in DOMAIN http /\ http[r].op = op /\ http[r].st = "done"

\* C1: a conversation saved with POST /api/chats and then loaded by its id
\* comes back with the id, the title and the messages (same order, same ids,
\* roles and contents) of the save that was written last.
C1_RoundTrip ==
    \A r \in DOMAIN http :
        (Done(r, "GET /api/chats/:id") /\ http[r].status = 200) =>
            LET C == http[r].hist.saved
                loaded == http[r].res
            IN  /\ loaded.id = C.id
                /\ loaded.id = http[r].id
                /\ loaded.title = C.title
                /\ loaded.messages = C.messages

C1_Witness ==
    \E r \in DOMAIN http :
        /\ Done(r, "GET /api/chats/:id")
        /\ http[r].status = 200
        /\ http[r].res.messages = <<ExtMsgB, ExtMsgA>>

\* C2: DELETE /api/chats/:id of an id that has no file answers success and
\* leaves the store as it was (so deleting twice succeeds twice).
C2_IdempotentDelete ==
    \A r \in DOMAIN http :
        (Done(r, "DELETE /api/chats/:id") /\ ~http[r].hist.existed) =>
            /\ http[r].status = 200
            /\ http[r].hist.after = http[r].hist.before

\* C3: when the readdir callback meets a file that is not JSON (every file
\* of the scan still being there), the listing is answered with the
\* summaries of the valid files and the server stays up.
C3_ListingResilience ==
    \A r \in DOMAIN http :
        (/\ http[r].op = "GET /api/chats"
         /\ "hist" \in DOMAIN http[r]
         /\ \E i \in DOMAIN http[r].hist.saw : http[r].hist.saw[i] = "corrupt"
         /\ \A i \in DOMAIN http[r].hist.saw : http[r].hist.saw[i] # "absent") =>
            /\ http[r].st = "done"
            /\ http[r].status = 200
            /\ {http[r].res.array[k].id : k \in DOMAIN http[r].res.array}
                  = {http[r].files[i] : i \in {j \in DOMAIN http[r].hist.saw : http[r].hist.saw[j] = "json"}}

\* C4: GET /api/settings read while settings.json is missing answers the
\* default settings object, and the file then holds the defaults.
C4_SettingsDefault ==
    \A r \in DOMAIN http :
        (Done(r, "GET /api/settings") /\ http[r].hist.missing) =>
            /\ http[r].status = 200
            /\ http[r].res = defaultSettings
            /\ http[r].hist.after = JSONstringify(defaultSettings)

\* what the client of connection c has received so far
Received(c) == SubSeq(sse[c].out, 1, sse[c].rcvd)

\* the frames of seq before its first [DONE]
RECURSIVE BeforeDone(_)
BeforeDone(seq) ==
    IF seq = << >> \/ Head(seq) = DONE THEN << >>
    ELSE <<Head(seq)>> \o BeforeDone(Tail(seq))

\* concatenation of the content fields of the chunks of seq
RECURSIVE Concat(_)
Concat(seq) ==
    IF seq = << >> THEN << >> ELSE <<Head(seq).content>> \o Concat(Tail(seq))

IsPrefix(a, b) == Len(a) <= Len(b) /\ a = SubSeq(b, 1, Len(a))

\* C5: on every POST /api/chat connection the chunks received so far spell a
\* prefix of the fixed response; once the client holds [DONE] the chunks
\* before it spell exactly the response, [DONE] was written once, as the last
\* frame, and the response has ended.
C5_StreamingCompleteness ==
    \A c \in DOMAIN sse :
        LET got == Received(c)
        IN  /\ IsPrefix(Concat(BeforeDone(got)), response)
            /\ (\E k \in DOMAIN got : got[k] = DONE) =>
                  /\ Concat(BeforeDone(got)) = response
                  /\ Cardinality({k \in DOMAIN sse[c].out : sse[c].out[k] = DONE}) = 1
                  /\ sse[c].out[Len(sse[c].out)] = DONE
                  /\ got[Len(got)] = DONE
                  /\ sse[c].ended
                  /\ ~sse[c].interval

C5_Witness ==
    \E c \in DOMAIN sse :
        /\ Received(c) # << >>
        /\ Received(c)[Len(Received(c))] = DONE
        /\ Len(Received(c)) = Len(response) + 1

\* the message an element stands for: the first of the element's role with
\* the id the element was created with; 0 when there is none
TargetIndex(msgs, el) ==
    IF \E i \in DOMAIN msgs : msgs[i].id = el.shows /\ msgs[i].role = el.role
      THEN CHOOSE i \in DOMAIN msgs :
               /\ msgs[i].id = el.shows /\ msgs[i].role = el.role
               /\ \A j \in 1..(i - 1) : ~(msgs[j].id = el.shows /\ msgs[j].role = el.role)
      ELSE 0

InvalidTarget(msgs, el) ==
    /\ el.role = "assistant"
    /\ TargetIndex(msgs, el) # 0
    /\ \/ TargetIndex(msgs, el) = 1
       \/ msgs[TargetIndex(msgs, el) - 1].role = "assistant"

\* C6: regenerate called on an assistant message that has no preceding
\* message, or whose preceding message is an assistant message, changes
\* neither the message list, the pending input, the generating state, the
\* sockets nor the requests, and shows the user a notice.
C6_RegeneratePrecondition ==
    [][\A i \in DOMAIN dom :
          (RegenerateClick(i) /\ InvalidTarget(currentMessages, dom[i]))
             => /\ UNCHANGED <<currentMessages, messageInput, isGenerating, websocket, ws, http>>
                /\ notice' # "none"]_vars

IdRoleContent(msgs) ==
    [i \in DOMAIN msgs |-> [id |-> msgs[i].id, role |-> msgs[i].role, content |-> msgs[i].content]]

\* C7: once a message was edited to new content, the save that the edit
\* triggered has completed and the conversation was loaded again, the loaded
\* conversation holds a message with the edited message's id and role and
\* the new content.
C7_EditThenSave ==
    edited.stage = "reloaded"
        => \E i \in DOMAIN edited.loaded :
              /\ edited.loaded[i].id = edited.id
              /\ edited.loaded[i].role = edited.role
              /\ edited.loaded[i].content = edited.content

\* C8: right after a successful load the in-memory list is the stored
\* message sequence (same length, order, ids, roles, contents) and the
\* current conversation id is the id that was loaded.
C8_LoadReplacesList ==
    (event.fn = "loadChat.then" /\ event.arg.ok)
        => /\ IdRoleContent(currentMessages) = IdRoleContent(event.arg.stored)
           /\ currentChatId = event.arg.id

\* C9: no two messages of the in-memory list have the same id.
C9_UniqueIds ==
    \A i, j \in DOMAIN currentMessages :
        i # j => currentMessages[i].id # currentMessages[j].id

RoleContent(msgs) ==
    [i \in DOMAIN msgs |-> [role |-> msgs[i].role, content |-> msgs[i].content]]

\* C10: every request sent on a socket carries the in-memory list as it was
\* when the message was sent (the new user turn is its last element), each
\* message once and in order, and the settings of that moment.
C10_RequestHistory ==
    \A k \in 1..MaxSockets :
        ws[k].st # "none" =>
            \A n \in DOMAIN ws[k].sent :
                /\ JSONparse(ws[k].sent[n]).messages = RoleContent(ws[k].listAtSend)
                /\ JSONparse(ws[k].sent[n]).settings = ws[k].settingsAtSend

\* C11: when the stream that a regenerate started completes with a reply
\* and nothing else touched the list meanwhile, the request carried the
\* truncated history (the list up to the user message before the target)
\* and the list is that truncated history followed by one new assistant
\* message.
C11_RegenerateSemantics ==
    (/\ event.fn = "onclose"
     /\ event.arg.via = "regenerate"
     /\ event.arg.responseContent # << >>
     /\ event.arg.listAtClose = event.arg.listAtSend)
        => /\ \A n \in DOMAIN event.arg.sent :
                 JSONparse(event.arg.sent[n]).messages = RoleContent(event.arg.listAtCall)
           /\ Len(currentMessages) = Len(event.arg.listAtCall) + 1
           /\ SubSeq(currentMessages, 1, Len(event.arg.listAtCall)) = event.arg.listAtCall
           /\ currentMessages[Len(currentMessages)].role = "assistant"

\* C12: a streaming session that was started is eventually over for the
\* page: whenever the page is generating it is later not generating.
C12_EventuallyIdle == isGenerating ~> ~isGenerating

\* C13: when the last frame of a session was an error frame and the session
\* has ended without a transport error, the error is in front of the user:
\* the element holding it was put into the chat, or a notice was shown.
C13_ErrorSurfaced ==
    (/\ event.fn = "onclose"
     /\ event.arg.st = "open"
     /\ event.arg.contentDiv = "error")
        => \/ event.arg.responseContent # << >>
           \/ notice # "none"

\* C14: when a streaming session has completed (the socket closed without
\* a transport error), a save of the current chat carrying the entire
\* in-memory list has been sent to the chat store.
C14_SaveOnCompletion ==
    (event.fn = "onclose" /\ event.arg.st = "open")
        => \E r \in DOMAIN http :
              /\ http[r].op = "POST /api/chats"
              /\ http[r].body.id = currentChatId
              /\ http[r].body.messages = currentMessages

\* C15: when saveSettings has finished, the confirmation is shown and the
\* modal closed only if POST /api/settings answered with success; otherwise
\* the user is told that saving failed.
C15_SettingsAcknowledged ==
    event.fn = "saveSettings.then"
        => IF event.arg.ok
             THEN notice = "Settings Saved!" /\ ~settingsModal
             ELSE notice = "Failed to save settings"

\* C16: a listing that was answered holds one summary {id, title,
\* timestamp} for each file of the scan, each once, sorted by timestamp
\* descending, and each timestamp is the one the last save of that
\* conversation stored.
C16_ListingSorted ==
    \A r \in DOMAIN http :
        (Done(r, "GET /api/chats") /\ http[r].status = 200) =>
            LET chats == http[r].res.array
                files == http[r].files
            IN  /\ Len(chats) = Len(files)
                /\ \A i \in DOMAIN files : \E k \in DOMAIN chats : chats[k].id = files[i]
                /\ \A k, l \in DOMAIN chats : k < l => chats[k].id # chats[l].id
                /\ \A k, l \in DOMAIN chats : k < l => chats[k].timestamp >= chats[l].timestamp
                /\ \A k \in DOMAIN chats :
                      /\ DOMAIN chats[k] = {"id", "title", "timestamp"}
                      /\ \E i \in DOMAIN files :
                            /\ files[i] = chats[k].id
                            /\ chats[k].timestamp = JSONparse(http[r].hist.docs[i]).timestamp
                            /\ chats[k].title = JSONparse(http[r].hist.docs[i]).title

\* two conversations saved at different times, scanned oldest first, and
\* listed newest first
C16_Witness ==
    \E r \in DOMAIN http :
        /\ Done(r, "GET /api/chats")
        /\ http[r].status = 200
        /\ Len(http[r].res.array) = 2
        /\ http[r].res.array[1].timestamp > http[r].res.array[2].timestamp
        /\ http[r].files[1] = http[r].res.array[2].id

\* C17: the step that completes a save of conversation C leaves, under
\* C.id, a file holding exactly C's id, title and messages with the save's
\* timestamp (nothing of an earlier file survives, and the file is created
\* when there was none), and no other file changes; so after two saves of
\* one id the store holds the one whose write was applied last.
C17_SaveOverwrites ==
    [][\A r \in DOMAIN http :
          (/\ http[r].op = "POST /api/chats"
           /\ http[r].st = "fs"
           /\ http'[r].st = "done"
           /\ http'[r].status = 200) =>
              LET C == http[r].body
              IN  /\ chatFiles'[C.id].kind = "json"
                  /\ DOMAIN JSONparse(chatFiles'[C.id]) = {"id", "title", "timestamp", "messages"}
                  /\ JSONparse(chatFiles'[C.id]).id = C.id
                  /\ JSONparse(chatFiles'[C.id]).title = C.title
                  /\ JSONparse(chatFiles'[C.id]).messages = C.messages
                  /\ JSONparse(chatFiles'[C.id]).timestamp \in 0..now
                  /\ \A id \in DOMAIN chatFiles \ {C.id} : chatFiles'[id] = chatFiles[id]]_vars

\* a save that replaced a file with other messages, and a save that created
\* its file
C17_Witness ==
    /\ \E r \in DOMAIN http :
          /\ Done(r, "POST /api/chats")
          /\ http[r].status = 200
          /\ http[r].hist.before.kind = "json"
          /\ JSONparse(http[r].hist.before).messages # http[r].body.messages
          /\ JSONparse(chatFiles[http[r].body.id]).messages = http[r].body.messages
    /\ \E r \in DOMAIN http :
          /\ Done(r, "POST /api/chats")
          /\ http[r].status = 200
          /\ http[r].hist.before.kind = "absent"

\* the saves of conversation id whose write ran after the delete d and
\* before the exchanges of set were all complete
SavedSince(d, set) ==
    \E s \in set \ http[d].hist.was :
        /\ http[s].op = "POST /api/chats"
        /\ "hist" \in DOMAIN http[s]
        /\ http[s].body.id = http[d].id

\* C18: a delete of id answered with success removed the file of id and
\* changed no other file; as long as id is not saved again, a listing
\* scanned after it has no entry for id and a load of id is answered 404.
C18_DeleteRemoves ==
    \A d \in DOMAIN http :
        (Done(d, "DELETE /api/chats/:id") /\ http[d].status = 200) =>
            /\ http[d].hist.after[http[d].id].kind = "absent"
            /\ \A id \in ChatIds \ {http[d].id} : http[d].hist.after[id] = http[d].hist.before[id]
            /\ \A l \in DOMAIN http :
                  (/\ Done(l, "GET /api/chats")
                   /\ http[l].status = 200
                   /\ d \in http[l].scanned
                   /\ ~SavedSince(d, http[l].scanned)) =>
                      \A k \in DOMAIN http[l].res.array : http[l].res.array[k].id # http[d].id
            /\ \A g \in DOMAIN http :
                  (/\ Done(g, "GET /api/chats/:id")
                   /\ http[g].id = http[d].id
                   /\ d \in http[g].hist.was
                   /\ ~SavedSince(d, http[g].hist.was)) =>
                      http[g].status = 404

\* a stored conversation deleted, then asked for by its id and listed
C18_Witness ==
    \E d, g, l \in DOMAIN http :
        /\ Done(d, "DELETE /api/chats/:id")
        /\ http[d].status = 200
        /\ http[d].hist.before[http[d].id].kind = "json"
        /\ Done(g, "GET /api/chats/:id")
        /\ http[g].id = http[d].id
        /\ d \in http[g].hist.was
        /\ http[g].status = 404
        /\ Done(l, "GET /api/chats")
        /\ http[l].status = 200
        /\ d \in http[l].scanned
        /\ http[l].res.array = << >>

\* the settings writes that had run when the read g ran
WritesBefore(g) ==
    {s \in http[g].hist.was : http[s].op = "POST /api/settings" /\ http[s].hist.written}

C20_IndependentSessions ==
    [][/\ \A c \in DOMAIN sse' :
             \* what one connection is sent from first to last: the response
             \* one character a frame, then [DONE]
             LET FullStream == [i \in 1..Len(response) |-> [content |-> response[i]]] \o <<DONE>>
             IN /\ IsPrefix(sse'[c].out, FullStream)
                /\ sse'[c].ended => sse'[c].out = FullStream
             /\ Len(sse'[c].out) = sse'[c].index + (IF sse'[c].ended THEN 1 ELSE 0)
             /\ sse'[c].ended = ~sse'[c].interval
       /\ \A c \in DOMAIN sse :
             sse'[c] # sse[c] => \A o \in DOMAIN sse \ {c} : sse'[o] = sse[o]]_vars

\* two connections: one has received its whole stream while the client of
\* the other went away in the middle of its own
C20_Witness ==
    /\ Len(sse) = 2
    /\ \E c, o \in DOMAIN sse :
          /\ c # o
          /\ Received(c) = [i \in 1..Len(response) |-> [content |-> response[i]]] \o <<DONE>>
          /\ ~sse[o].clientOpen
          /\ sse[o].rcvd > 0
          /\ sse[o].index < Len(response)

\* C21: once the client of a connection has gone away, the relay writes no
\* further frame for that connection (its interval timer no longer runs).
C21_CancelOnClose ==
    [][\A c \in DOMAIN sse :
          ~sse[c].clientOpen =>
              /\ sse'[c].out = sse[c].out
              /\ sse'[c].index = sse[c].index]_vars

\* C22: a frame that is not JSON, or is JSON without the expected fields,
\* leaves the reply as it was and the stream open; a well-formed content
\* frame, whatever came before it, is appended at the end of the reply.
C22_MalformedSkipped ==
    event.fn = "onmessage" =>
        LET sock == ws[event.arg.socket]
            frame == event.arg.frame
            \* the frame is JSON and carries the fields of a content chunk
            WellFormed == /\ ParseOk(frame)
                          /\ Get(JSONparse(frame), "type") = "message"
                          /\ "content" \in DOMAIN JSONparse(frame)
        IN  /\ sock.st = "open"
            /\ sock.responseContent =
                  IF WellFormed
                    THEN event.arg.before \o JSONparse(frame).content
                    ELSE event.arg.before

C24_ReplyStaysInConversation ==
    (event.fn = "onclose" /\ event.arg.responseContent # << >>) =>
        /\ currentChatId = event.arg.chatId
        /\ \A r \in DOMAIN http :
              (/\ http[r].op = "POST /api/chats"
               /\ http[r].from = [fn |-> "saveCurrentChat", why |-> "onclose"]
               /\ "body" \in DOMAIN http[r])
                  => http[r].body.id = event.arg.chatId

\* C25: at most one socket opened by sendMessage is unclosed at any time,
\* and while a socket is connecting or open isGenerating is true (so that
\* sendMessage and regenerateResponse return at their guard).
C25_OneSessionInFlight ==
    /\ Cardinality({k \in 1..MaxSockets : ws[k].st # "none"}) <= 1
    /\ \A k \in 1..MaxSockets : ws[k].st \in {"connecting", "open"} => isGenerating

\* C26: when loadChatHistory has read a 200 response of GET /api/chats, the
\* sidebar holds one item for every summary of the response, so that a
\* conversation saved before the reload has its entry.
C26_HistoryMatchesListing ==
    (event.fn = "loadChatHistory.then" /\ event.arg.ok) =>
        LET sent == event.arg.exchange.res.array
        IN  /\ ~chatHistory.error
            /\ \A i \in DOMAIN sent :
                  \E j \in DOMAIN chatHistory.items : chatHistory.items[j].id = sent[i].id

\* C27: the step that completes a POST /api/chats or a DELETE
\* /api/chats/:id for id changes at most the file of conversation id: the
\* settings document and the document of every other conversation are as
\* before.
C27_WritesStayInChats ==
    [][\A r \in DOMAIN http :
          (/\ http[r].op \in {"POST /api/chats", "DELETE /api/chats/:id"}
           /\ http[r].st = "fs"
           /\ http'[r].st = "done") =>
              LET id == IF http[r].op = "POST /api/chats" THEN http[r].body.id ELSE http[r].id
              IN  /\ settingsFile' = settingsFile
                  /\ \A other \in ChatIds \ {id} : chatFiles'[other] = chatFiles[other]]_vars

\* C28: when saveEditedMessage has run for the id m of the edit form, the
\* list has the length and order it had, every message has its id, role and
\* timestamp, one message with id m has the new content and every other
\* message its old content (the list is as it was when no message has id m),
\* and a save of the conversation with that list has been sent.
C28_EditFrame ==
    event.fn = "saveEditedMessage" =>
        LET before == event.arg.before
            m == event.arg.id
        IN  /\ Len(currentMessages) = Len(before)
            /\ \A i \in DOMAIN before :
                  /\ currentMessages[i].id = before[i].id
                  /\ currentMessages[i].role = before[i].role
                  /\ currentMessages[i].timestamp = before[i].timestamp
            /\ IF \E i \in DOMAIN before : before[i].id = m
                 THEN \E i \in DOMAIN before :
                        /\ before[i].id = m
                        /\ currentMessages[i].content = event.arg.newContent
                        /\ \A j \in DOMAIN before \ {i} :
                              currentMessages[j].content = before[j].content
                 ELSE currentMessages = before
            /\ \E r \in DOMAIN http :
                  /\ http[r].op = "POST /api/chats"
                  /\ http[r].from = [fn |-> "saveCurrentChat", why |-> "saveEditedMessage"]
                  /\ http[r].st = "refused" \/ http[r].body.messages = currentMessages

\* an edit that changed the content of a message of a list of three or more
C28_Witness ==
    /\ event.fn = "saveEditedMessage"
    /\ Len(event.arg.before) >= 3
    /\ currentMessages # event.arg.before

\* C29: a POST /api/chats whose body lacks id, title or messages, or has one
\* of them empty, is answered 400 without reaching the file system; one that
\* carries all three is answered 200 {success, id} only by the step that
\* wrote the file.
C29_ValidatedSave ==
    \A r \in DOMAIN http :
        (http[r].op = "POST /api/chats" /\ http[r].st # "refused") =>
            \* id, title or messages missing or empty ('' or [])
            IF \E key \in {"id", "title", "messages"} :
                  key \notin DOMAIN http[r].body \/ http[r].body[key] = << >>
              THEN /\ http[r].st = "done"
                   /\ http[r].status = 400
                   /\ "hist" \notin DOMAIN http[r]
              ELSE http[r].st = "done" =>
                      /\ http[r].status = 200
                      /\ http[r].res = [success |-> TRUE, id |-> http[r].body.id]
                      /\ http[r].hist.written

\* ------------------------------------------------------------------ the SSE read loop
\* part_001:161-218, streamChatCompletion.  The byte stream is a sequence of
\* symbols; a symbol is a piece of text no read splits further, so every
\* line below can be cut between any two of its symbols.
MaxLines == 4

DataPrefix == <<"data:", " ">>                          \* 'data: '
DoneData == <<"[DONE", "]">>                            \* '[DONE]'
DeltaData(x) == <<"{choices:[{delta:{content:", x, "}}]}">>

\* the lines a server may send, without their terminating newline
SseLines ==
    {DataPrefix \o DeltaData(x) : x \in {"a", "b"}}
        \cup {DataPrefix \o DoneData,
              DataPrefix \o <<"{", "}">>,                                  \* '{}': no choices
              DataPrefix \o <<"{choices:[{delta:{content:", "}}]}">>,      \* content ''
              DataPrefix \o <<"{choices:[{delta:{content:", "a">>,         \* cut short: not JSON
              <<":", "ping">>}                                             \* not a data line

RECURSIVE SeqsUpTo(_, _)
SeqsUpTo(S, n) ==
    IF n = 0 THEN {<< >>}
    ELSE SeqsUpTo(S, n - 1) \cup {Append(s, x) : s \in SeqsUpTo(S, n - 1), x \in S}

\* the bytes of the response body: every line followed by its newline
RECURSIVE Bytes(_)
Bytes(lines) ==
    IF lines = << >> THEN << >> ELSE Head(lines) \o <<"\n">> \o Bytes(Tail(lines))

\* String.prototype.split('\n'): the pieces between the newlines, the last
\* piece being what follows the last newline (possibly '')
RECURSIVE split(_)
split(text) ==
    IF \A i \in DOMAIN text : text[i] # "\n" THEN <<text>>
    ELSE LET i == CHOOSE i \in DOMAIN text :
                      text[i] = "\n" /\ \A j \in 1..(i - 1) : text[j] # "\n"
         IN <<SubSeq(text, 1, i - 1)>> \o split(SubSeq(text, i + 1, Len(text)))

\* line.startsWith('data: ')
startsWith(line, prefix) ==
    Len(line) >= Len(prefix) /\ SubSeq(line, 1, Len(prefix)) = prefix

\* part_001:207-208: JSON.parse(data) then parsed.choices[0]?.delta?.content;
\* "throws" stands for the SyntaxError of JSON.parse and for the TypeError
\* of reading [0] of undefined, both caught at part_001:215
DeltaOf(data) ==
    IF Len(data) = 3 /\ data[1] = "{choices:[{delta:{content:" /\ data[3] = "}}]}"
      THEN [throws |-> FALSE, delta |-> <<data[2]>>]
    ELSE IF data = <<"{choices:[{delta:{content:", "}}]}">> THEN [throws |-> FALSE, delta |-> << >>]
    ELSE [throws |-> TRUE, delta |-> << >>]

\* part_001:181, the one-character ellipsis shown until the first delta
Placeholder == <<"...">>

\* part_001:203-216, the body of the for loop for one line
forLine(rd, line) ==
    IF ~startsWith(line, DataPrefix) THEN rd
    ELSE LET data == SubSeq(line, Len(DataPrefix) + 1, Len(line)) IN    \* line.slice(6)
         IF data = DoneData THEN [rd EXCEPT !.st = "returned"]
         ELSE LET parsed == DeltaOf(data) IN
              IF parsed.throws \/ parsed.delta = << >> THEN rd
              ELSE [rd EXCEPT !.fullResponse = @ \o parsed.delta,
                              !.contentDiv = rd.fullResponse \o parsed.delta]

\* part_001:202, for (const line of lines), left by the return at 205
RECURSIVE forLines(_, _)
forLines(rd, lines) ==
    IF lines = << >> \/ rd.st = "returned" THEN rd
    ELSE forLines(forLine(rd, Head(lines)), Tail(lines))

\* a reader that forgets the unfinished line between two reads
readNoCarry(rd, value) ==
    LET lines == split(value)
    IN forLines([rd EXCEPT !.buffer = lines[Len(lines)],        \* lines.pop() || ''
                           !.rest = SubSeq(@, Len(value) + 1, Len(@)),
                           !.cut = @ \/ lines[Len(lines)] # << >>],
                SubSeq(lines, 1, Len(lines) - 1))

\* part_001:197-217, one turn of the while loop on a read that is not done
read(rd, value) ==
    LET lines == split(rd.buffer \o value)
    IN forLines([rd EXCEPT !.buffer = lines[Len(lines)],        \* lines.pop() || ''
                           !.rest = SubSeq(@, Len(value) + 1, Len(@)),
                           !.cut = @ \/ lines[Len(lines)] # << >>],
                SubSeq(lines, 1, Len(lines) - 1))

\* reader.read() resolves with the next n symbols of the body
ReaderRead ==
    /\ reader.st = "reading"
    /\ \E n \in 1..Len(reader.rest) :
          reader' = read(reader, SubSeq(reader.rest, 1, n))
    /\ UNCHANGED <<now, storeVars, sse, clientVars>>

\* reader.read() resolves with done: break at part_001:198
ReaderDone ==
    /\ reader.st = "reading"
    /\ reader.rest = << >>
    /\ reader' = [reader EXCEPT !.st = "ended"]
    /\ UNCHANGED <<now, storeVars, sse, clientVars>>

InitReader ==
    /\ chatFiles = [id \in ChatIds |-> AbsentFile]
    /\ lastSaved = [id \in ChatIds |-> << >>]
    \* part_001:192-196 for a body made of the given lines
    /\ reader \in {[st |-> "reading", lines |-> lines, rest |-> Bytes(lines),
                    buffer |-> << >>, fullResponse |-> << >>, contentDiv |-> Placeholder,
                    cut |-> FALSE] : lines \in SeqsUpTo(SseLines, MaxLines)}
    /\ InitRest

NextReader ==
    \/ ReaderRead
    \/ ReaderDone

SpecReader == InitReader /\ [][NextReader]_vars

\* what the lines say: the deltas of the data lines before the first [DONE]
RECURSIVE Deltas(_)
Deltas(lines) ==
    IF lines = << >> THEN << >>
    ELSE IF Head(lines) = DataPrefix \o DoneData THEN << >>
    ELSE IF \E x \in {"a", "b"} : Head(lines) = DataPrefix \o DeltaData(x)
      THEN <<Head(lines)[Len(DataPrefix) + 2]>> \o Deltas(Tail(lines))
    ELSE Deltas(Tail(lines))

\* C30: however the body is cut into reads, the reply built so far is a
\* prefix of the deltas of the lines before [DONE], in order; once the loop
\* has left (return at [DONE] or break at the end of the body) it is exactly
\* those deltas and contentDiv shows them (the ellipsis stays only when there
\* is no delta at all), and after the return nothing is read or appended.
C30_SplitIndependent ==
    reader.st # "idle" =>
        /\ IsPrefix(reader.fullResponse, Deltas(reader.lines))
        /\ reader.contentDiv =
              IF reader.fullResponse = << >> THEN Placeholder ELSE reader.fullResponse
        /\ reader.st \in {"returned", "ended"} =>
              reader.fullResponse = Deltas(reader.lines)
        /\ reader.st = "returned" =>
              \E i \in DOMAIN reader.lines : reader.lines[i] = DataPrefix \o DoneData
        /\ reader.st = "ended" =>
              \A i \in DOMAIN reader.lines : reader.lines[i] # DataPrefix \o DoneData

\* C30 witness: a body with two deltas, then [DONE], then a further delta
\* line, read with at least one line cut across two reads, has returned
C30_Witness ==
    /\ reader.st = "returned"
    /\ reader.cut
    /\ Len(reader.fullResponse) = 2
    /\ reader.rest # << >>
    /\ reader.lines[3] = DataPrefix \o DoneData

====
